---- MODULE Spec2Model ----
(***************************************************************************)
(* Fleet transition optimizer: model builder, constraint generator,       *)
(* solver boundary and solution decoder of optimizer.py, together with    *)
(* the checks of validate_submission.py applied to the decoded plan.      *)
(*                                                                         *)
(* Every solver value is held in fixed point: an entry n of res.x stands  *)
(* for the real number n / Unit.  Right-hand sides of constraint rows are *)
(* real numbers of the source and are scaled by Unit when a row is        *)
(* evaluated.                                                              *)
(***************************************************************************)
EXTENDS Integers, Sequences, FiniteSets, TLC

\* ------------------------------------------------------------------ bounds
\* Number of years of the horizon explored by Spec.
Horizon == 2
\* Number of years of the horizon explored by SpecLong (a batch must be able
\* to reach age 11).
LongHorizon == 12
\* Fixed-point denominator of the solver values (Unit = 2: halves).
Unit == 2
\* Largest value of a solver variable, in steps of 1 / Unit.
MaxQty == 3
\* Largest number of vehicles bought over the whole horizon under SpecLong.
MaxBoughtLong == 2
\* Number of years of the horizon explored by SpecMid (a pool must be able
\* to hold two carried-over batches).
MidHorizon == 3
\* Largest number of calls a client makes on the model under SpecApi.
MaxCalls == 3

\* ------------------------------------------------------- program constants
\* First year for which fleet and sell variables exist (t - age >= 2023).
BaseYear == 2023
\* Oldest age with a fleet variable: range(11) is 0..10.
MaxAge == 10
\* Stand-in for np.inf in variable and row bounds.
Inf == 1000000

\* ------------------------------------------------------------ input tables
\* Sorted universes of the categorical columns of the input tables.
VehicleUniverse == <<"BEV">>
SizeUniverse == <<"S1">>
DistanceUniverse == <<"D1", "D2">>
FuelUniverse == <<"Electricity">>

DemandValues == {0, 3}
RangeValues == {2, 3}
ConsumptionValues == {1, 2}
CapValues == {3, 6}
CostValues == {5, 10}

VARIABLES
    pc,                 \* position in solve_optimization
    years, sizes, distances, vehicle_types, fuels,
    demand_dict, emission_targets, vehicle_cost, vehicle_range,
    fuel_cost, fuel_emissions, consumption,
    resale_profile, insurance_profile, maintenance_profile,
    solver_scope,       \* the bounded range of solver outputs explored
    model,              \* the OptimizationModel instance
    buy_vars, sell_vars, use_vars, km_vars, fleet_vars,
    res,                \* result of model.solve()
    submission_rows, final_submission,
    year_pos,           \* index into years of the decoder's next year
    fleet_pool,         \* the decoder's pool of the year just processed
    duty_trace,         \* per duty: needed, the final remaining_needed,
                        \* the pool before and after, the records appended
    log,                \* lines printed
    submission_csv,     \* submission.csv: whether written, and its rows
    error,              \* the uncaught exception, or <<>>
    api_calls           \* the calls a client made on the OptimizationModel
                        \* directly: arguments, returned value, model before

inputs == <<years, sizes, distances, vehicle_types, fuels,
            demand_dict, emission_targets, vehicle_cost, vehicle_range,
            fuel_cost, fuel_emissions, consumption,
            resale_profile, insurance_profile, maintenance_profile,
            solver_scope>>
registries == <<buy_vars, sell_vars, use_vars, km_vars, fleet_vars>>
decoded == <<submission_rows, final_submission, year_pos, fleet_pool,
             duty_trace, submission_csv>>
vars == <<pc, inputs, model, registries, res, decoded, log, error, api_calls>>

\* --------------------------------------------------------------- utilities
Min(a, b) == IF a < b THEN a ELSE b

Range(f) == {f[i] : i \in DOMAIN f}

RECURSIVE Concat(_)
\* Concatenation of a sequence of sequences, in order.
Concat(ss) ==
    IF ss = <<>> THEN <<>> ELSE Head(ss) \o Concat(Tail(ss))

\* sorted(column.unique()): the members of the universe that occur, in order.
SortedUnique(universe, present) ==
    SelectSeq(universe, LAMBDA e : e \in present)

\* dict.get(key, default)
Get(dict, key, default) ==
    IF key \in DOMAIN dict THEN dict[key] ELSE default

\* range(lo, hi) of Python as a sequence: lo, lo + 1, ..., hi - 1.
PyRange(lo, hi) == [i \in 1..(hi - lo) |-> lo + i - 1]

\* int(round(n / Unit)) for n >= 0: nearest integer, ties to the even one.
PyRound(n) ==
    LET q == n \div Unit
        r == n % Unit
    IN  IF 2 * r < Unit THEN q
        ELSE IF 2 * r > Unit THEN q + 1
        ELSE IF q % 2 = 0 THEN q ELSE q + 1

\* ------------------------------------------------------- OptimizationModel
EmptyModel ==
    [var_names |-> <<>>, var_types |-> <<>>, lbs |-> <<>>, ubs |-> <<>>,
     obj_coeffs |-> <<>>, var_map |-> <<>>,
     constraints_rows |-> <<>>, constraints_cols |-> <<>>,
     constraints_vals |-> <<>>, constraints_lbs |-> <<>>,
     constraints_ubs |-> <<>>, constraint_count |-> 0]

\* Index returned by add_variable on model m.
next_index(m) == Len(m.var_names)

\* add_variable(name, 'continuous', lb=0, ub=inf, obj): the model afterwards.
\* obj is held in hundredths.
add_variable(m, name, var_type, obj) ==
    [m EXCEPT !.var_names = Append(@, name),
              !.var_types = Append(@, IF var_type = "integer" THEN 1 ELSE 0),
              !.lbs = Append(@, 0),
              !.ubs = Append(@, Inf),
              !.obj_coeffs = Append(@, obj),
              !.var_map = [n \in DOMAIN @ \cup {name} |->
                              IF n = name THEN Len(m.var_names) ELSE @[n]]]

\* add_constraint with the bounds of '<=' appended for '>=' as well.
add_constraintOneSided(m, terms, sense, rhs) ==
    LET row_idx == m.constraint_count
        n == Len(terms)
    IN  [m EXCEPT
           !.constraint_count = @ + 1,
           !.constraints_rows = @ \o [i \in 1..n |-> row_idx],
           !.constraints_cols = @ \o [i \in 1..n |-> terms[i][2]],
           !.constraints_vals = @ \o [i \in 1..n |-> terms[i][1]],
           !.constraints_lbs =
               IF sense = "==" THEN Append(@, rhs)
               ELSE IF sense = "<=" THEN Append(@, -Inf)
               ELSE IF sense = ">=" THEN Append(@, -Inf)
               ELSE @,
           !.constraints_ubs =
               IF sense = "==" THEN Append(@, rhs)
               ELSE IF sense = "<=" THEN Append(@, rhs)
               ELSE IF sense = ">=" THEN Append(@, rhs)
               ELSE @]

\* add_constraint(terms, sense, rhs): the model afterwards.  terms is a
\* sequence of <<coeff, var_idx>>.
add_constraint(m, terms, sense, rhs) ==
    LET row_idx == m.constraint_count
        n == Len(terms)
    IN  [m EXCEPT
           !.constraint_count = @ + 1,
           !.constraints_rows = @ \o [i \in 1..n |-> row_idx],
           !.constraints_cols = @ \o [i \in 1..n |-> terms[i][2]],
           !.constraints_vals = @ \o [i \in 1..n |-> terms[i][1]],
           !.constraints_lbs =
               IF sense = "==" THEN Append(@, rhs)
               ELSE IF sense = "<=" THEN Append(@, -Inf)
               ELSE IF sense = ">=" THEN Append(@, rhs)
               ELSE @,
           !.constraints_ubs =
               IF sense = "==" THEN Append(@, rhs)
               ELSE IF sense = "<=" THEN Append(@, rhs)
               ELSE IF sense = ">=" THEN Append(@, Inf)
               ELSE @]

\* ------------------------------------------------- solve_optimization: sets
\* The (t, v, s) triples in the order of the nested loops over years,
\* vehicle_types and sizes.
YearClassLoop ==
    Concat([i \in 1..Len(years) |->
        Concat([j \in 1..Len(vehicle_types) |->
            [k \in 1..Len(sizes) |->
                <<years[i], vehicle_types[j], sizes[k]>>]])])

\* The (d, f) pairs in the order of the nested loops over distances and fuels.
DutyLoop ==
    Concat([i \in 1..Len(distances) |->
        [j \in 1..Len(fuels) |-> <<distances[i], fuels[j]>>]])

\* The (v, f) pairs in the order of the nested loops over vehicle_types, fuels.
VehicleFuelLoop ==
    Concat([i \in 1..Len(vehicle_types) |->
        [j \in 1..Len(fuels) |-> <<vehicle_types[i], fuels[j]>>]])

\* -------------------------------------------- solve_optimization: variables
\* Ages for which year t has a fleet variable, in loop order.
FleetAges(t) ==
    SelectSeq(PyRange(0, MaxAge + 1), LAMBDA age : t - age >= BaseYear)

\* Ages for which year t has a sell variable, in loop order.
SellAges(t) ==
    SelectSeq(PyRange(1, MaxAge + 1), LAMBDA age : t - age >= BaseYear)

BuyCall(t, v, s) ==
    [kind |-> "Buy", key |-> <<t, v, s>>, name |-> <<"Buy", t, v, s>>,
     obj |-> 100 * Get(vehicle_cost, <<v, s, t>>, 0)]

FleetCall(t, v, s, age) ==
    LET price == Get(vehicle_cost, <<v, s, t - age>>, 0)
        maint == Get(maintenance_profile, age, 0)
        ins == Get(insurance_profile, age, 0)
    IN  [kind |-> "Fleet", key |-> <<t, v, s, age>>,
         name |-> <<"Fleet", t, v, s, age>>,
         obj |-> price * (maint + ins)]

SellCall(t, v, s, age) ==
    LET price == Get(vehicle_cost, <<v, s, t - age>>, 0)
        resale == Get(resale_profile, age, 0)
    IN  [kind |-> "Sell", key |-> <<t, v, s, age>>,
         name |-> <<"Sell", t, v, s, age>>,
         obj |-> (-1) * price * resale]

\* The Use and the Km variable of one duty, created only when (v, s, t, f)
\* is in the consumption index.
UseKmCalls(t, v, s, d, f) ==
    IF <<v, s, t, f>> \in DOMAIN consumption
    THEN << [kind |-> "Use", key |-> <<t, v, s, d, f>>,
             name |-> <<"Use", t, v, s, d, f>>, obj |-> 0],
            [kind |-> "Km", key |-> <<t, v, s, d, f>>,
             name |-> <<"Km", t, v, s, d, f>>,
             obj |-> 100 * consumption[<<v, s, t, f>>]
                         * Get(fuel_cost, <<f, t>>, 0)] >>
    ELSE <<>>

\* The add_variable calls of one iteration of the (t, v, s) loop, in order.
VariableCalls(t, v, s) ==
    <<BuyCall(t, v, s)>>
    \o [i \in 1..Len(FleetAges(t)) |-> FleetCall(t, v, s, FleetAges(t)[i])]
    \o [i \in 1..Len(SellAges(t)) |-> SellCall(t, v, s, SellAges(t)[i])]
    \o Concat([i \in 1..Len(DutyLoop) |->
           UseKmCalls(t, v, s, DutyLoop[i][1], DutyLoop[i][2])])

\* All add_variable calls of the variable-creation loops, in order.
AllVariableCalls ==
    Concat([i \in 1..Len(YearClassLoop) |->
        VariableCalls(YearClassLoop[i][1], YearClassLoop[i][2],
                      YearClassLoop[i][3])])

RECURSIVE AddVariables(_, _, _, _)
\* The model after the add_variable calls lo..hi of calls, in order (the
\* range is split in halves to keep the evaluation shallow).
AddVariables(m, calls, lo, hi) ==
    IF lo > hi THEN m
    ELSE IF lo = hi
    THEN add_variable(m, calls[lo].name, "continuous", calls[lo].obj)
    ELSE LET mid == (lo + hi) \div 2
             left == AddVariables(m, calls, lo, mid)
         IN  \* the first half is evaluated before the second is entered
             IF next_index(left) < next_index(m) THEN m
             ELSE AddVariables(left, calls, mid + 1, hi)

\* The registry (key -> index) of one kind of variable: each call's index is
\* the number of variables created before it.
Registry(calls, kind) ==
    LET pos == {i \in 1..Len(calls) : calls[i].kind = kind}
        keys == {calls[i].key : i \in pos}
    IN  [k \in keys |->
            (CHOOSE i \in pos : calls[i].key = k
                /\ \A j \in pos : calls[j].key = k => j <= i) - 1]

\* CreateVariables with the three loops run over sets whose iteration order
\* is not fixed: the calls are made in loop order or in the reverse order.
CreateVariablesAnyOrder ==
    /\ pc = "variables"
    /\ \E calls \in {AllVariableCalls,
                      [i \in 1..Len(AllVariableCalls) |->
                          AllVariableCalls[Len(AllVariableCalls) + 1 - i]]} :
           /\ model' = AddVariables(model, calls, 1, Len(calls))
           /\ buy_vars' = Registry(calls, "Buy")
           /\ fleet_vars' = Registry(calls, "Fleet")
           /\ sell_vars' = Registry(calls, "Sell")
           /\ use_vars' = Registry(calls, "Use")
           /\ km_vars' = Registry(calls, "Km")
    /\ log' = log \o <<"Creating variables...", "Adding constraints...">>
    /\ pc' = "constraints"
    /\ UNCHANGED <<api_calls, inputs, res, decoded, error>>

CreateVariables ==
    /\ pc = "variables"
    /\ LET calls == AllVariableCalls
       IN  /\ model' = AddVariables(model, calls, 1, Len(calls))
           /\ buy_vars' = Registry(calls, "Buy")
           /\ fleet_vars' = Registry(calls, "Fleet")
           /\ sell_vars' = Registry(calls, "Sell")
           /\ use_vars' = Registry(calls, "Use")
           /\ km_vars' = Registry(calls, "Km")
    /\ log' = log \o <<"Creating variables...", "Adding constraints...">>
    /\ pc' = "constraints"
    /\ UNCHANGED <<api_calls, inputs, res, decoded, error>>

\* ------------------------------------------ solve_optimization: constraints
\* A constraint is first described as a request: the variable lookups of its
\* terms in evaluation order (<<coeff, registry, key>>), its sense and its
\* right-hand side, which is a literal or a lookup in an input table.
RegistryOf(name) ==
    CASE name = "buy" -> buy_vars
      [] name = "fleet" -> fleet_vars
      [] name = "sell" -> sell_vars
      [] name = "use" -> use_vars
      [] name = "km" -> km_vars

\* 1. Fleet dynamics: the rows of one (t, v, s), in order.
FleetDynamicsRows(t, v, s) ==
    << [terms |-> << <<1, "fleet", <<t, v, s, 0>> >>,
                     <<-1, "buy", <<t, v, s>> >> >>,
        sense |-> "==", rhs |-> <<"literal", 0>>] >>
    \o Concat([i \in 1..Len(SellAges(t)) |->
          LET age == SellAges(t)[i]
              own == << <<1, "fleet", <<t, v, s, age>> >>,
                        <<1, "sell", <<t, v, s, age>> >> >>
              prev == <<-1, "fleet", <<t - 1, v, s, age - 1>> >>
          IN  << [terms |-> IF t > BaseYear THEN Append(own, prev) ELSE own,
                  sense |-> "==", rhs |-> <<"literal", 0>>] >>
              \o (IF t > BaseYear
                  THEN << [terms |-> << <<1, "sell", <<t, v, s, age>> >>,
                                        prev >>,
                           sense |-> "<=", rhs |-> <<"literal", 0>>] >>
                  ELSE <<>>)])

\* The (v, f) pairs of a demand cell that have a Km variable, in loop order.
KmPairs(t, s, d) ==
    SelectSeq(VehicleFuelLoop,
              LAMBDA vf : <<t, vf[1], s, d, vf[2]>> \in DOMAIN km_vars)

\* DemandRows with demand_dict.get((t, s, d), 0) in place of the indexing.
DemandRowsDefaultZero(t, s, d) ==
    LET pairs == KmPairs(t, s, d)
    IN  << [terms |-> [i \in 1..Len(pairs) |->
                          <<1, "km", <<t, pairs[i][1], s, d, pairs[i][2]>> >>],
            sense |-> "==",
            rhs |-> <<"literal", Get(demand_dict, <<t, s, d>>, 0)>>] >>
        \o [i \in 1..Len(pairs) |->
              LET v == pairs[i][1]
                  f == pairs[i][2]
                  rng == Get(vehicle_range, <<v, s, t>>, 0)
              IN  [terms |-> << <<1, "km", <<t, v, s, d, f>> >>,
                                <<-rng, "use", <<t, v, s, d, f>> >> >>,
                   sense |-> "<=", rhs |-> <<"literal", 0>>]]

\* DemandRows with the link rows Km <= Use * 2 * Range.
DemandRowsRangeTwice(t, s, d) ==
    LET pairs == KmPairs(t, s, d)
    IN  << [terms |-> [i \in 1..Len(pairs) |->
                          <<1, "km", <<t, pairs[i][1], s, d, pairs[i][2]>> >>],
            sense |-> "==", rhs |-> <<"demand", <<t, s, d>> >>] >>
        \o [i \in 1..Len(pairs) |->
              LET v == pairs[i][1]
                  f == pairs[i][2]
                  rng == Get(vehicle_range, <<v, s, t>>, 0)
              IN  [terms |-> << <<1, "km", <<t, v, s, d, f>> >>,
                                <<-2 * rng, "use", <<t, v, s, d, f>> >> >>,
                   sense |-> "<=", rhs |-> <<"literal", 0>>]]

\* DemandRows with the demand row left out when the cell has no Km variable.
DemandRowsSkipEmpty(t, s, d) ==
    LET pairs == KmPairs(t, s, d)
    IN  (IF pairs = <<>> THEN <<>>
         ELSE << [terms |-> [i \in 1..Len(pairs) |->
                       <<1, "km", <<t, pairs[i][1], s, d, pairs[i][2]>> >>],
                  sense |-> "==", rhs |-> <<"demand", <<t, s, d>> >>] >>)
        \o [i \in 1..Len(pairs) |->
              LET v == pairs[i][1]
                  f == pairs[i][2]
                  rng == Get(vehicle_range, <<v, s, t>>, 0)
              IN  [terms |-> << <<1, "km", <<t, v, s, d, f>> >>,
                                <<-rng, "use", <<t, v, s, d, f>> >> >>,
                   sense |-> "<=", rhs |-> <<"literal", 0>>]]

\* 2. Demand satisfaction and the Km-to-Use link: the rows of one (t, s, d).
DemandRows(t, s, d) ==
    LET pairs == KmPairs(t, s, d)
    IN  << [terms |-> [i \in 1..Len(pairs) |->
                          <<1, "km", <<t, pairs[i][1], s, d, pairs[i][2]>> >>],
            sense |-> "==", rhs |-> <<"demand", <<t, s, d>> >>] >>
        \o [i \in 1..Len(pairs) |->
              LET v == pairs[i][1]
                  f == pairs[i][2]
                  rng == Get(vehicle_range, <<v, s, t>>, 0)
              IN  [terms |-> << <<1, "km", <<t, v, s, d, f>> >>,
                                <<-rng, "use", <<t, v, s, d, f>> >> >>,
                   sense |-> "<=", rhs |-> <<"literal", 0>>]]

\* 3. Usage limit: the row of one (t, v, s).
UsageLimitRow(t, v, s) ==
    LET duties == SelectSeq(DutyLoop,
                    LAMBDA df : <<t, v, s, df[1], df[2]>> \in DOMAIN use_vars)
        ages == SelectSeq(PyRange(0, MaxAge + 1),
                    LAMBDA age : <<t, v, s, age>> \in DOMAIN fleet_vars)
    IN  [terms |-> [i \in 1..Len(duties) |->
                       <<1, "use", <<t, v, s, duties[i][1], duties[i][2]>> >>]
                   \o [i \in 1..Len(ages) |->
                       <<-1, "fleet", <<t, v, s, ages[i]>> >>],
         sense |-> "<=", rhs |-> <<"literal", 0>>]

\* The (v, s, d, f) tuples in the order of the four nested loops.
ClassDutyLoop ==
    Concat([i \in 1..Len(vehicle_types) |->
        Concat([j \in 1..Len(sizes) |->
            [k \in 1..Len(DutyLoop) |->
                <<vehicle_types[i], sizes[j],
                  DutyLoop[k][1], DutyLoop[k][2]>>]])])

\* 4. Emission target: the row of year t.
EmissionRow(t) ==
    LET uses == SelectSeq(ClassDutyLoop,
                    LAMBDA q : <<t, q[1], q[2], q[3], q[4]>> \in DOMAIN km_vars)
    IN  [terms |-> [i \in 1..Len(uses) |->
                      LET q == uses[i]
                          cons == consumption[<<q[1], q[2], t, q[4]>>]
                          emis == Get(fuel_emissions, <<q[4], t>>, 0)
                      IN  <<cons * emis, "km", <<t, q[1], q[2], q[3], q[4]>> >>],
         sense |-> "<=", rhs |-> <<"cap", t>>]

\* All constraint requests in the order the four families are generated.
ConstraintRequests ==
    Concat([i \in 1..Len(YearClassLoop) |->
        FleetDynamicsRows(YearClassLoop[i][1], YearClassLoop[i][2],
                          YearClassLoop[i][3])])
    \o Concat([i \in 1..Len(years) |->
          Concat([j \in 1..Len(sizes) |->
              Concat([k \in 1..Len(distances) |->
                  DemandRows(years[i], sizes[j], distances[k])])])])
    \o [i \in 1..Len(YearClassLoop) |->
          UsageLimitRow(YearClassLoop[i][1], YearClassLoop[i][2],
                        YearClassLoop[i][3])]
    \o [i \in 1..Len(years) |-> EmissionRow(years[i])]

\* The lookups of a request that raise KeyError, in evaluation order: the
\* registries of its terms, then the input table of its right-hand side.
MissingKeys(req) ==
    LET bad == SelectSeq(req.terms,
                 LAMBDA tm : tm[3] \notin DOMAIN RegistryOf(tm[2]))
    IN  [i \in 1..Len(bad) |-> bad[i][3]]
        \o (IF req.rhs[1] = "demand" /\ req.rhs[2] \notin DOMAIN demand_dict
            THEN <<req.rhs[2]>> ELSE <<>>)
        \o (IF req.rhs[1] = "cap" /\ req.rhs[2] \notin DOMAIN emission_targets
            THEN <<req.rhs[2]>> ELSE <<>>)

\* The value of the right-hand side of a request whose lookups succeed.
RhsValue(req) ==
    CASE req.rhs[1] = "literal" -> req.rhs[2]
      [] req.rhs[1] = "demand" -> demand_dict[req.rhs[2]]
      [] req.rhs[1] = "cap" -> emission_targets[req.rhs[2]]

\* The terms of a request as <<coeff, var_idx>>.
ResolvedTerms(req) ==
    [i \in 1..Len(req.terms) |->
        <<req.terms[i][1], RegistryOf(req.terms[i][2])[req.terms[i][3]]>>]

RECURSIVE AddConstraintsFrom(_, _, _, _)
\* The add_constraint calls lo..hi of reqs in order, stopped by the first
\* KeyError: [m |-> the model, raised |-> <<>> or <<key>>] (the range is
\* split in halves to keep the evaluation shallow).
AddConstraintsFrom(m, reqs, lo, hi) ==
    IF lo > hi THEN [m |-> m, raised |-> <<>>]
    ELSE IF lo = hi
    THEN IF MissingKeys(reqs[lo]) # <<>>
         THEN [m |-> m, raised |-> <<Head(MissingKeys(reqs[lo]))>>]
         ELSE [m |-> add_constraint(m, ResolvedTerms(reqs[lo]),
                                    reqs[lo].sense, RhsValue(reqs[lo])),
               raised |-> <<>>]
    ELSE LET mid == (lo + hi) \div 2
             left == AddConstraintsFrom(m, reqs, lo, mid)
         IN  IF left.raised # <<>> THEN left
             ELSE AddConstraintsFrom(left.m, reqs, mid + 1, hi)

AddConstraints ==
    /\ pc = "constraints"
    /\ LET reqs == ConstraintRequests
           out == AddConstraintsFrom(model, reqs, 1, Len(reqs))
       IN  /\ model' = out.m
           /\ IF out.raised = <<>>
              THEN /\ pc' = "solve"
                   /\ error' = error
              ELSE /\ pc' = "raised"
                   /\ error' = <<"KeyError", out.raised[1]>>
    /\ UNCHANGED <<api_calls, inputs, registries, res, decoded, log>>

\* ------------------------------------------------ OptimizationModel.solve
\* The solver is a black box: on success res.x is a vector that satisfies
\* every row and every variable bound at the least value of the objective,
\* any one of them when several do.  The vectors explored are those of the
\* grid 0, step, 2 * step, ... up to the largest value, with the total of the
\* Buy variables capped by solver_scope.max_bought and the total of the Sell
\* variables by solver_scope.max_sold.

RECURSIVE SumOver(_, _)
\* Sum of f[e] over the finite set S.
SumOver(f, S) ==
    IF S = {} THEN 0
    ELSE LET e == CHOOSE e \in S : TRUE
         IN  f[e] + SumOver(f, S \ {e})

\* Positions of the coefficient triples of each row.
RowPositions(m) ==
    [r \in 0..(m.constraint_count - 1) |->
        {p \in DOMAIN m.constraints_rows : m.constraints_rows[p] = r}]

\* Rows in which each variable occurs.
RowsOfVariable(m) ==
    [j \in 0..(Len(m.var_names) - 1) |->
        {m.constraints_rows[p] :
            p \in {q \in DOMAIN m.constraints_cols : m.constraints_cols[q] = j}}]

\* Largest value explored for each variable (by position in var_names).
LargestValue(m) ==
    LET demands == Range(demand_dict) \cup {0}
        maxKm == Unit * (CHOOSE d \in demands : \A e \in demands : e <= d)
    IN  [i \in 1..Len(m.var_names) |->
            IF m.var_names[i][1] = "Km" THEN maxKm ELSE MaxQty]

\* Row r is satisfied by x: lb <= sum of coeff * x[col] <= ub.
RowHolds(m, pos, r, x) ==
    LET total == SumOver([p \in pos[r] |->
                     m.constraints_vals[p] * x[m.constraints_cols[p] + 1]],
                     pos[r])
        lb == m.constraints_lbs[r + 1]
        ub == m.constraints_ubs[r + 1]
    IN  /\ (IF lb = -Inf THEN TRUE ELSE total >= lb * Unit)
        /\ (IF ub = Inf THEN TRUE ELSE total <= ub * Unit)

\* x is within the bounds of every variable and satisfies every row.
Feasible(m, x) ==
    /\ Len(x) = Len(m.var_names)
    /\ \A i \in 1..Len(x) :
           /\ x[i] >= m.lbs[i] * Unit
           /\ (IF m.ubs[i] = Inf THEN TRUE ELSE x[i] <= m.ubs[i] * Unit)
    /\ \A r \in 0..(m.constraint_count - 1) :
           RowHolds(m, RowPositions(m), r, x)

\* Row r can still be satisfied when only the variables of the prefix part
\* are fixed and every other variable lies between 0 and its largest value.
RowOpen(m, pos, top, r, part) ==
    LET lo == SumOver([p \in pos[r] |->
                  LET c == m.constraints_vals[p]
                      j == m.constraints_cols[p]
                  IN  IF j < Len(part) THEN c * part[j + 1]
                      ELSE IF c < 0 THEN c * top[j + 1] ELSE 0], pos[r])
        hi == SumOver([p \in pos[r] |->
                  LET c == m.constraints_vals[p]
                      j == m.constraints_cols[p]
                  IN  IF j < Len(part) THEN c * part[j + 1]
                      ELSE IF c > 0 THEN c * top[j + 1] ELSE 0], pos[r])
        lb == m.constraints_lbs[r + 1]
        ub == m.constraints_ubs[r + 1]
    IN  /\ (IF lb = -Inf THEN TRUE ELSE hi >= lb * Unit)
        /\ (IF ub = Inf THEN TRUE ELSE lo <= ub * Unit)

RECURSIVE TotalOfKindIn(_, _, _, _, _)
\* Total of the values that the prefix part gives to the variables of one
\* kind among positions lo..hi (the range is split in halves).
TotalOfKindIn(m, part, kind, lo, hi) ==
    IF lo > hi THEN 0
    ELSE IF lo = hi
    THEN IF m.var_names[lo][1] = kind THEN part[lo] ELSE 0
    ELSE LET mid == (lo + hi) \div 2
         IN  TotalOfKindIn(m, part, kind, lo, mid)
             + TotalOfKindIn(m, part, kind, mid + 1, hi)

TotalOfKind(m, part, kind) == TotalOfKindIn(m, part, kind, 1, Len(part))

\* Values explored for the next variable after the prefix part.
NextValues(m, top, part) ==
    LET i == Len(part) + 1
        kind == m.var_names[i][1]
        most == IF kind = "Buy"
                THEN Min(top[i], solver_scope.max_bought
                                   - TotalOfKind(m, part, "Buy"))
                ELSE IF kind = "Sell"
                THEN Min(top[i], solver_scope.max_sold
                                   - TotalOfKind(m, part, "Sell"))
                ELSE top[i]
    IN  {n \in 0..most : n % solver_scope.step = 0}

\* The prefixes of S, each extended by every explored value of its next
\* variable that leaves every row of that variable satisfiable.
ExtendByOne(m, pos, rowsOf, top, S) ==
    UNION {{Append(part, n) :
               n \in {k \in NextValues(m, top, part) :
                        \A r \in rowsOf[Len(part)] :
                            RowOpen(m, pos, top, r, Append(part, k))}} :
           part \in S}

RECURSIVE Extensions(_, _, _, _, _, _)
\* The prefixes of S extended by count further variables (the count is split
\* in halves to keep the evaluation shallow).
Extensions(m, pos, rowsOf, top, S, count) ==
    IF count = 0 THEN S
    ELSE IF count = 1 THEN ExtendByOne(m, pos, rowsOf, top, S)
    ELSE LET half == count \div 2
             first == Extensions(m, pos, rowsOf, top, S, half)
         IN  IF first = {} THEN {}
             ELSE Extensions(m, pos, rowsOf, top, first, count - half)

\* Every explored vector that satisfies the model.
ExploredSolutions(m) ==
    LET pos == RowPositions(m)
    IN  IF \E r \in DOMAIN pos : pos[r] = {} /\ ~RowHolds(m, pos, r, <<>>)
        THEN {}
        ELSE Extensions(m, pos, RowsOfVariable(m), LargestValue(m),
                        {<<>>}, Len(m.var_names))

RECURSIVE ObjectiveIn(_, _, _, _)
\* c @ x over positions lo..hi (the range is split in halves).
ObjectiveIn(m, x, lo, hi) ==
    IF lo > hi THEN 0
    ELSE IF lo = hi THEN m.obj_coeffs[lo] * x[lo]
    ELSE LET mid == (lo + hi) \div 2
         IN  ObjectiveIn(m, x, lo, mid) + ObjectiveIn(m, x, mid + 1, hi)

\* The explored vectors that satisfy the model at the least objective value:
\* every variable is continuous, so milp returns an optimum of the program.
OptimalSolutions(m) ==
    LET feasible == {y \in ExploredSolutions(m) : Feasible(m, y)}
        value == [y \in feasible |-> ObjectiveIn(m, y, 1, Len(y))]
    IN  {y \in feasible : \A z \in feasible : value[y] <= value[z]}

\* model.solve() returns a solution.
SolveSuccess ==
    /\ pc = "solve"
    /\ \E x \in OptimalSolutions(model) :
           res' = [success |-> TRUE, x |-> x]
    /\ log' = log \o <<"Solving...", "Solver Status: True">>
    /\ pc' = "extract"
    /\ UNCHANGED <<api_calls, inputs, model, registries, decoded, error>>

\* SolveFailure without the return after "Optimization failed!": the decoder
\* runs on.
SolveFailureFallsThrough ==
    /\ pc = "solve"
    /\ res' = [success |-> FALSE, x |-> <<>>]
    /\ log' = log \o <<"Solving...", "Solver Status: False",
                       "Optimization failed!">>
    /\ pc' = "extract"
    /\ UNCHANGED <<api_calls, inputs, model, registries, decoded, error>>

\* model.solve() returns without a solution (infeasible, or the time limit
\* ran out); solve_optimization prints and returns.
SolveFailure ==
    /\ pc = "solve"
    /\ res' = [success |-> FALSE, x |-> <<>>]
    /\ log' = log \o <<"Solving...", "Solver Status: False",
                       "Optimization failed!">>
    /\ pc' = "returned"
    /\ UNCHANGED <<api_calls, inputs, model, registries, decoded, error>>

\* ------------------------------------------- solve_optimization: decoding
\* get_val(idx): the entry of res.x, in steps of 1 / Unit.
get_val(idx) == res.x[idx + 1]

\* The batch id f"{v}_{s}_{year}", kept as its three parts.
BatchId(v, s, year) == <<v, s, year>>

BuyRecord(t, v, s, val) ==
    [year |-> t, id |-> BatchId(v, s, t), num_vehicles |-> val,
     type |-> "Buy", fuel |-> "", distance_bucket |-> "",
     distance_per_vehicle |-> ""]

SellRecord(t, v, s, age, val) ==
    [year |-> t, id |-> BatchId(v, s, t - age), num_vehicles |-> val,
     type |-> "Sell", fuel |-> "", distance_bucket |-> "",
     distance_per_vehicle |-> ""]

\* distance_per_vehicle is the quotient total_km / needed, kept exact as
\* <<numerator, denominator>>.
UseRecord(t, id, take, f, d, avg_km) ==
    [year |-> t, id |-> id, num_vehicles |-> take,
     type |-> "Use", fuel |-> f, distance_bucket |-> d,
     distance_per_vehicle |-> avg_km]

\* BuyRows with val >= 0 in place of val > 0.
BuyRowsNotNegative(t, v, s) ==
    LET val == PyRound(get_val(buy_vars[<<t, v, s>>]))
    IN  IF val >= 0 THEN <<BuyRecord(t, v, s, val)>> ELSE <<>>

\* The Buy record of (t, v, s), if its rounded value is positive.
BuyRows(t, v, s) ==
    LET val == PyRound(get_val(buy_vars[<<t, v, s>>]))
    IN  IF val > 0 THEN <<BuyRecord(t, v, s, val)>> ELSE <<>>

\* The Sell records of (t, v, s), one per age with a positive rounded value.
SellRows(t, v, s) ==
    Concat([i \in 1..MaxAge |->
        IF <<t, v, s, i>> \in DOMAIN sell_vars
        THEN LET val == PyRound(get_val(sell_vars[<<t, v, s, i>>]))
             IN  IF val > 0 THEN <<SellRecord(t, v, s, i, val)>> ELSE <<>>
        ELSE <<>>])

\* First, extract Buy/Sell.
ExtractBuySell ==
    /\ pc = "extract"
    /\ submission_rows' =
           Concat([i \in 1..Len(YearClassLoop) |->
               LET c == YearClassLoop[i]
               IN  BuyRows(c[1], c[2], c[3]) \o SellRows(c[1], c[2], c[3])])
    /\ final_submission' = submission_rows'
    /\ year_pos' = 1
    /\ pc' = IF Len(years) = 0 THEN "save" ELSE "use"
    /\ UNCHANGED <<api_calls, inputs, model, registries, res, fleet_pool, duty_trace,
                   submission_csv, log, error>>

\* The pool of (v, s) for year t: the batches carried over from the fleet
\* variables of t - 1 by age 0..10, then the batch bought in t.
BuildPool(t, v, s) ==
    (IF t > BaseYear
     THEN Concat([i \in 1..(MaxAge + 1) |->
              LET age == i - 1
              IN  IF <<t - 1, v, s, age>> \in DOMAIN fleet_vars
                  THEN LET count ==
                             PyRound(get_val(fleet_vars[<<t - 1, v, s, age>>]))
                       IN  IF count > 0
                           THEN <<[id |-> BatchId(v, s, (t - 1) - age),
                                   count |-> count]>>
                           ELSE <<>>
                  ELSE <<>>])
     ELSE <<>>)
    \o (LET bought == PyRound(get_val(buy_vars[<<t, v, s>>]))
        IN  IF bought > 0
            THEN <<[id |-> BatchId(v, s, t), count |-> bought]>>
            ELSE <<>>)

\* fleet_pool of year t as built, before any duty is assigned.
BuildFleetPool(t) ==
    [c \in {<<vehicle_types[i], sizes[j]>> :
               i \in 1..Len(vehicle_types), j \in 1..Len(sizes)} |->
        BuildPool(t, c[1], c[2])]

RECURSIVE TakeFromPoolKeepCount(_, _, _, _, _, _, _)
\* TakeFromPool without item['count'] -= take.
TakeFromPoolKeepCount(pool, i, remaining_needed, t, f, d, avg_km) ==
    IF i > Len(pool)
    THEN [pool |-> pool, remaining_needed |-> remaining_needed, rows |-> <<>>]
    ELSE IF pool[i].count > 0 /\ remaining_needed > 0
    THEN LET take == Min(pool[i].count, remaining_needed)
             rest == TakeFromPoolKeepCount(
                         pool, i + 1,
                         remaining_needed - take, t, f, d, avg_km)
         IN  [rest EXCEPT
                !.rows = <<UseRecord(t, pool[i].id, take, f, d, avg_km)>> \o @]
    ELSE TakeFromPoolKeepCount(pool, i + 1, remaining_needed, t, f, d, avg_km)

RECURSIVE TakeFromPool(_, _, _, _, _, _, _)
\* The loop over the items of a pool from position i on:
\* [pool, remaining_needed, rows] afterwards.
TakeFromPool(pool, i, remaining_needed, t, f, d, avg_km) ==
    IF i > Len(pool)
    THEN [pool |-> pool, remaining_needed |-> remaining_needed, rows |-> <<>>]
    ELSE IF pool[i].count > 0 /\ remaining_needed > 0
    THEN LET take == Min(pool[i].count, remaining_needed)
             rest == TakeFromPool(
                         [pool EXCEPT ![i].count = @ - take], i + 1,
                         remaining_needed - take, t, f, d, avg_km)
         IN  [rest EXCEPT
                !.rows = <<UseRecord(t, pool[i].id, take, f, d, avg_km)>> \o @]
    ELSE TakeFromPool(pool, i + 1, remaining_needed, t, f, d, avg_km)

RECURSIVE AssignTasks(_, _, _, _)
\* The loop over (v, s, d, f) of year t from position i on, starting from
\* the pools and the accumulated rows and trace: [pools, rows, trace].
AssignTasks(t, i, pools, acc) ==
    IF i > Len(ClassDutyLoop) THEN [pools |-> pools, rows |-> acc.rows,
                                    trace |-> acc.trace]
    ELSE LET q == ClassDutyLoop[i]
             key == <<t, q[1], q[2], q[3], q[4]>>
         IN  IF key \in DOMAIN use_vars
             THEN LET needed == PyRound(get_val(use_vars[key]))
                      total_km == get_val(km_vars[key])
                  IN  IF needed > 0
                      THEN LET out == TakeFromPool(
                                          Get(pools, <<q[1], q[2]>>, <<>>), 1,
                                          needed, t, q[4], q[3],
                                          <<total_km, Unit * needed>>)
                           IN  AssignTasks(t, i + 1,
                                   [pools EXCEPT ![<<q[1], q[2]>>] = out.pool],
                                   [rows |-> acc.rows \o out.rows,
                                    trace |-> Append(acc.trace,
                                        [key |-> key, needed |-> needed,
                                         total_km |-> total_km,
                                         remaining_needed |->
                                             out.remaining_needed,
                                         pool_before |->
                                             Get(pools, <<q[1], q[2]>>, <<>>),
                                         pool_after |-> out.pool,
                                         rows |-> out.rows])])
                      ELSE AssignTasks(t, i + 1, pools,
                               [acc EXCEPT !.trace = Append(@,
                                   [key |-> key, needed |-> needed,
                                    total_km |-> total_km,
                                    remaining_needed |-> needed,
                                    pool_before |->
                                        Get(pools, <<q[1], q[2]>>, <<>>),
                                    pool_after |->
                                        Get(pools, <<q[1], q[2]>>, <<>>),
                                    rows |-> <<>>])])
             ELSE AssignTasks(t, i + 1, pools, acc)

\* Post-process Use: one iteration of the loop over years.
DecodeYear ==
    /\ pc = "use"
    /\ year_pos <= Len(years)
    /\ LET t == years[year_pos]
           out == AssignTasks(t, 1, BuildFleetPool(t),
                              [rows |-> <<>>, trace |-> <<>>])
       IN  /\ final_submission' = final_submission \o out.rows
           /\ fleet_pool' = out.pools
           /\ duty_trace' = duty_trace \o out.trace
    /\ year_pos' = year_pos + 1
    /\ pc' = IF year_pos = Len(years) THEN "save" ELSE "use"
    /\ UNCHANGED <<api_calls, inputs, model, registries, res, submission_rows,
                   submission_csv, log, error>>

\* pd.DataFrame(final_submission), the selection of the seven columns and
\* to_csv.  A frame built from no rows has no columns, and the selection
\* raises KeyError before anything is written.
SaveSubmission ==
    /\ pc = "save"
    /\ IF Len(final_submission) = 0
       THEN /\ pc' = "raised"
            /\ error' = <<"KeyError", "columns">>
            /\ UNCHANGED <<submission_csv, log>>
       ELSE /\ pc' = "done"
            /\ submission_csv' = [written |-> TRUE, rows |-> final_submission]
            /\ log' = Append(log, "Submission saved to submission.csv")
            /\ error' = error
    /\ UNCHANGED <<api_calls, inputs, model, registries, res, submission_rows,
                   final_submission, year_pos, fleet_pool, duty_trace>>

\* ------------------------------------------------------------ specification
\* The state after load_data() and the construction of the sets and the
\* parameter dictionaries, for a horizon of n years from first whose demand
\* table is demand and whose consumption index is cons.
LoadedFrom(first, n, demand, cost, ranges, cons, cap, profile, scope) ==
    /\ pc = "variables"
    /\ years = [i \in 1..n |-> first + i - 1]
    /\ vehicle_types = VehicleUniverse
    /\ fuels = FuelUniverse
    /\ demand_dict = demand
    /\ sizes = SortedUnique(SizeUniverse, {k[2] : k \in DOMAIN demand})
    /\ distances = SortedUnique(DistanceUniverse, {k[3] : k \in DOMAIN demand})
    /\ emission_targets = [t \in first..(first + n - 1) |-> cap]
    /\ vehicle_cost = cost
    /\ vehicle_range = ranges
    /\ fuel_cost = [k \in Range(FuelUniverse)
                          \X (first..(first + n - 1)) |-> 1]
    /\ fuel_emissions = [k \in Range(FuelUniverse)
                               \X (first..(first + n - 1)) |-> 1]
    /\ consumption = cons
    /\ resale_profile = profile.resale
    /\ insurance_profile = profile.insurance
    /\ maintenance_profile = profile.maintenance
    /\ solver_scope = scope
    /\ model = EmptyModel
    /\ buy_vars = <<>>
    /\ sell_vars = <<>>
    /\ use_vars = <<>>
    /\ km_vars = <<>>
    /\ fleet_vars = <<>>
    /\ res = [success |-> FALSE, x |-> <<>>]
    /\ submission_rows = <<>>
    /\ final_submission = <<>>
    /\ year_pos = 0
    /\ fleet_pool = <<>>
    /\ duty_trace = <<>>
    /\ log = <<"Loading data...", "Data loaded.">>
    /\ submission_csv = [written |-> FALSE, rows |-> <<>>]
    /\ error = <<>>
    /\ api_calls = <<>>

\* The same for a horizon that starts in BaseYear.
Loaded(n, demand, cost, ranges, cons, cap, profile, scope) ==
    LoadedFrom(BaseYear, n, demand, cost, ranges, cons, cap, profile, scope)

\* Keys of the tables over a horizon of n years from first.
DemandCellsFrom(first, n, buckets) ==
    (first..(first + n - 1)) \X Range(SizeUniverse) \X buckets

ClassYearsFrom(first, n) ==
    Range(VehicleUniverse) \X Range(SizeUniverse) \X (first..(first + n - 1))

ConsumptionKeysFrom(first, n) ==
    Range(VehicleUniverse) \X Range(SizeUniverse)
        \X (first..(first + n - 1)) \X Range(FuelUniverse)

\* Keys of the tables over a horizon of n years from BaseYear with the
\* first distance bucket only.
DemandCells(n) == DemandCellsFrom(BaseYear, n, {DistanceUniverse[1]})

ClassYears(n) == ClassYearsFrom(BaseYear, n)

ConsumptionKeys(n) == ConsumptionKeysFrom(BaseYear, n)

\* Cost profiles by end_of_year 1..MaxAge, in percent of the purchase price.
DecliningResale ==
    [resale |-> [a \in 1..MaxAge |-> 90 - 8 * a],
     insurance |-> [a \in 1..MaxAge |-> 5 + a],
     maintenance |-> [a \in 1..MaxAge |-> a]]

NoResale ==
    [resale |-> [a \in 1..MaxAge |-> 0],
     insurance |-> [a \in 1..MaxAge |-> 1],
     maintenance |-> [a \in 1..MaxAge |-> 0]]

\* Every table of a short horizon, each entry present or absent where the
\* source tolerates absence, with solver values in steps of 1 / Unit.
Init ==
    \E cells \in SUBSET DemandCells(Horizon) :
    \E demand \in [cells -> DemandValues] :
    \E cost \in [ClassYears(Horizon) -> CostValues] :
    \E ranges \in [ClassYears(Horizon) -> RangeValues] :
    \E keys \in SUBSET ConsumptionKeys(Horizon) :
    \E cons \in [keys -> ConsumptionValues] :
    \E cap \in CapValues :
        Loaded(Horizon, demand, cost, ranges, cons, cap, DecliningResale,
               [step |-> 1, max_bought |-> Horizon * MaxQty,
                max_sold |-> Horizon * MaxQty])

\* A horizon long enough for a batch to pass age 10: whole vehicles only,
\* one vehicle's worth of demand in every year before the last.
InitLong ==
    LET first == BaseYear
        last == BaseYear + LongHorizon - 1
    IN  \E d \in DemandValues :
        \E c \in CostValues :
        \E absent \in SUBSET {k \in ConsumptionKeys(LongHorizon) :
                                k[3] \in {first, last}} :
            Loaded(LongHorizon,
                   [k \in DemandCells(LongHorizon) |->
                       IF k[1] = last THEN d ELSE 3],
                   [k \in ClassYears(LongHorizon) |->
                       IF k[3] = last THEN c ELSE 10],
                   [k \in ClassYears(LongHorizon) |-> 3],
                   [k \in ConsumptionKeys(LongHorizon) \ absent |-> 1],
                   3,
                   NoResale,
                   [step |-> Unit, max_bought |-> MaxBoughtLong * Unit,
                    max_sold |-> Unit])

\* First years of the horizons explored by SpecMid.
StartYears == {BaseYear - 1, BaseYear, BaseYear + 1}

\* A horizon of three years from any start year with two distance buckets:
\* one vehicle's worth of demand in the first bucket every year, demand in
\* the second bucket in any of the years, one yearly range for the last year
\* and one for the years before, the consumption entry of the last year
\* present or absent.
InitMid ==
    \E first \in StartYears :
    \E second \in [first..(first + MidHorizon - 1) -> DemandValues] :
    \E rng \in RangeValues :
    \E late \in RangeValues :
    \E step \in {1, Unit} :
    \E absent \in SUBSET {k \in ConsumptionKeysFrom(first, MidHorizon) :
                            k[3] = first + MidHorizon - 1} :
        LoadedFrom(first, MidHorizon,
                   [k \in DemandCellsFrom(first, MidHorizon,
                                          Range(DistanceUniverse)) |->
                       IF k[3] = DistanceUniverse[1] THEN 3 ELSE second[k[1]]],
                   [k \in ClassYearsFrom(first, MidHorizon) |-> 10],
                   [k \in ClassYearsFrom(first, MidHorizon) |->
                       IF k[3] = first + MidHorizon - 1 THEN late ELSE rng],
                   [k \in ConsumptionKeysFrom(first, MidHorizon) \ absent |-> 1],
                   6,
                   DecliningResale,
                   [step |-> step, max_bought |-> MidHorizon * Unit,
                    max_sold |-> Unit])

Next ==
    \/ CreateVariables
    \/ AddConstraints
    \/ SolveSuccess
    \/ SolveFailure
    \/ ExtractBuySell
    \/ DecodeYear
    \/ SaveSubmission

Spec == Init /\ [][Next]_vars

SpecLong == InitLong /\ [][Next]_vars

SpecMid == InitMid /\ [][Next]_vars

\* ------------------------------------------ OptimizationModel used directly
\* Arguments a client passes to add_variable and add_constraint.
ApiNames == {"x", "y"}
ApiTypes == {"continuous", "integer"}
ApiObjs == {0, 1}
ApiTerms == {<<>>, << <<1, 0>> >>, << <<1, 0>>, <<-1, 1>> >>}
ApiSenses == {"==", "<=", ">="}
ApiRhs == {0, 3}

\* A fresh OptimizationModel() in the hands of a client, nothing loaded.
InitApi ==
    /\ pc = "api"
    /\ model = EmptyModel
    /\ api_calls = <<>>
    /\ years = <<>>
    /\ sizes = <<>>
    /\ distances = <<>>
    /\ vehicle_types = <<>>
    /\ fuels = <<>>
    /\ demand_dict = <<>>
    /\ emission_targets = <<>>
    /\ vehicle_cost = <<>>
    /\ vehicle_range = <<>>
    /\ fuel_cost = <<>>
    /\ fuel_emissions = <<>>
    /\ consumption = <<>>
    /\ resale_profile = <<>>
    /\ insurance_profile = <<>>
    /\ maintenance_profile = <<>>
    /\ solver_scope = [step |-> 1, max_bought |-> 0, max_sold |-> 0]
    /\ buy_vars = <<>>
    /\ sell_vars = <<>>
    /\ use_vars = <<>>
    /\ km_vars = <<>>
    /\ fleet_vars = <<>>
    /\ res = [success |-> FALSE, x |-> <<>>]
    /\ submission_rows = <<>>
    /\ final_submission = <<>>
    /\ year_pos = 0
    /\ fleet_pool = <<>>
    /\ duty_trace = <<>>
    /\ log = <<>>
    /\ submission_csv = [written |-> FALSE, rows |-> <<>>]
    /\ error = <<>>

\* The client calls model.add_variable(name, var_type, obj=obj).
AddVariableCall ==
    /\ pc = "api"
    /\ Len(api_calls) < MaxCalls
    /\ \E name \in ApiNames, var_type \in ApiTypes, obj \in ApiObjs :
           /\ model' = add_variable(model, name, var_type, obj)
           /\ api_calls' = Append(api_calls,
                  [op |-> "add_variable", args |-> <<name, var_type, obj>>,
                   ret |-> next_index(model), before |-> model])
    /\ UNCHANGED <<pc, inputs, registries, res, decoded, log, error>>

\* The client calls model.add_constraint(terms, sense, rhs).
AddConstraintCall ==
    /\ pc = "api"
    /\ Len(api_calls) < MaxCalls
    /\ \E terms \in ApiTerms, sense \in ApiSenses, rhs \in ApiRhs :
           /\ model' = add_constraint(model, terms, sense, rhs)
           /\ api_calls' = Append(api_calls,
                  [op |-> "add_constraint", args |-> <<terms, sense, rhs>>,
                   ret |-> -1, before |-> model])
    /\ UNCHANGED <<pc, inputs, registries, res, decoded, log, error>>

NextApi ==
    \/ AddVariableCall
    \/ AddConstraintCall

SpecApi == InitApi /\ [][NextApi]_vars

\* ------------------------------------------------------ validate_submission
\* Fractions <<numerator, denominator>> with a positive denominator.
RatAdd(a, b) == <<a[1] * b[2] + b[1] * a[2], a[2] * b[2]>>

RECURSIVE RatSum(_)
\* Sum of a sequence of fractions.
RatSum(qs) ==
    IF qs = <<>> THEN <<0, 1>> ELSE RatAdd(Head(qs), RatSum(Tail(qs)))

RECURSIVE SumVehicles(_)
\* Sum of num_vehicles over a sequence of records.
SumVehicles(rows) ==
    IF rows = <<>> THEN 0
    ELSE Head(rows).num_vehicles + SumVehicles(Tail(rows))

\* The rows of one type.
RowsOfType(sub, type) == SelectSeq(sub, LAMBDA r : r.type = type)

\* total_distance of a Use row: num_vehicles * distance_per_vehicle.
total_distance(r) ==
    <<r.num_vehicles * r.distance_per_vehicle[1], r.distance_per_vehicle[2]>>

\* covered_demand.get((year, size, dist), 0): the total distance of the Use
\* rows grouped by year, size of the id and distance bucket.
covered_demand(sub, year, size, dist) ==
    LET rows == SelectSeq(RowsOfType(sub, "Use"),
                    LAMBDA r : r.year = year /\ r.id[2] = size
                               /\ r.distance_bucket = dist)
    IN  RatSum([i \in 1..Len(rows) |-> total_distance(rows[i])])

\* Check 1 passes: no cell of the demand table has covered < target - 1.0.
DemandPassed(sub) ==
    \A k \in DOMAIN demand_dict :
        LET covered == covered_demand(sub, k[1], k[2], k[3])
        IN  ~(covered[1] < (demand_dict[k] - 1) * covered[2])

\* calc_row_emission of a Use row: total distance times the consumption of
\* the batch named by the id (0 when absent) times the emission factor of
\* the fuel in the row's year (0 when absent).
calc_row_emission(r) ==
    LET cons == Get(consumption, <<r.id[1], r.id[2], r.id[3], r.fuel>>, 0)
        emis_factor == Get(fuel_emissions, <<r.fuel, r.year>>, 0)
        total_dist == total_distance(r)
    IN  <<total_dist[1] * cons * emis_factor, total_dist[2]>>

\* yearly_emissions.get(year, 0)
yearly_emissions(sub, year) ==
    LET rows == SelectSeq(RowsOfType(sub, "Use"), LAMBDA r : r.year = year)
    IN  RatSum([i \in 1..Len(rows) |-> calc_row_emission(rows[i])])

\* Check 2 passes: no year has actual > target + 1.0.
EmissionsPassed(sub) ==
    \A year \in DOMAIN emission_targets :
        LET actual == yearly_emissions(sub, year)
        IN  ~(actual[1] > (emission_targets[year] + 1) * actual[2])

\* Years of the submission in ascending order.
SubmissionYears(sub) ==
    SelectSeq(years, LAMBDA y : \E i \in 1..Len(sub) : sub[i].year = y)

\* Batch ids named by the submission.
SubmissionIds(sub) == {sub[i].id : i \in 1..Len(sub)}

\* Number of vehicles of the rows of one type, year and batch id.
VehiclesOf(sub, type, year, id) ==
    SumVehicles(SelectSeq(sub,
        LAMBDA r : r.type = type /\ r.year = year /\ r.id = id))

RECURSIVE ApplySells(_, _, _)
\* The Sell rows of one year applied in order from position i on:
\* [state |-> fleet_state, ok |-> no row sold more than was owned].
ApplySells(sells, i, state) ==
    IF i > Len(sells) THEN [state |-> state, ok |-> TRUE]
    ELSE LET vid == sells[i].id
             count == sells[i].num_vehicles
             rest == ApplySells(sells, i + 1,
                        [state EXCEPT ![vid] = @ - count])
         IN  [rest EXCEPT !.ok = @ /\ ~(state[vid] < count)]

\* Distance per vehicle of a Use row exceeds the range of its batch + 0.1.
ExceedsRange(r) ==
    LET max_range == Get(vehicle_range, <<r.id[1], r.id[2], r.id[3]>>, 0)
    IN  10 * r.distance_per_vehicle[1]
            > (10 * max_range + 1) * r.distance_per_vehicle[2]

RECURSIVE FleetBalance(_, _, _)
\* Check 3 over the years of the submission from position i on, starting
\* from fleet_state (batch id -> count, 0 when absent):
\* [balance |-> no Sell or Use beyond the owned count,
\*  range |-> no Use row beyond the range of its batch].
FleetBalance(sub, i, fleet_state) ==
    IF i > Len(SubmissionYears(sub)) THEN [balance |-> TRUE, range |-> TRUE]
    ELSE LET year == SubmissionYears(sub)[i]
             bought == [id \in SubmissionIds(sub) |->
                          fleet_state[id] + VehiclesOf(sub, "Buy", year, id)]
             sold == ApplySells(
                         SelectSeq(sub, LAMBDA r : r.type = "Sell"
                                                   /\ r.year = year),
                         1, bought)
             uses == SelectSeq(sub, LAMBDA r : r.type = "Use"
                                               /\ r.year = year)
             usedOk == \A id \in SubmissionIds(sub) :
                          ~(sold.state[id] < VehiclesOf(sub, "Use", year, id))
             rangeOk == \A k \in 1..Len(uses) : ~ExceedsRange(uses[k])
             rest == FleetBalance(sub, i + 1, sold.state)
         IN  [balance |-> sold.ok /\ usedOk /\ rest.balance,
              range |-> rangeOk /\ rest.range]

\* Check 3 of validate_submission on a submission.
FleetPassed(sub) ==
    FleetBalance(sub, 1, [id \in SubmissionIds(sub) |-> 0])

\* ------------------------------------------------------------------ claims
\* Number of vehicles of the rows of one type and batch id up to a year.
CumulativeOf(sub, type, id, year) ==
    SumVehicles(SelectSeq(sub,
        LAMBDA r : r.type = type /\ r.id = id /\ r.year <= year))

\* C1: in the plan written by the decoder, for every batch and every year,
\* cumulative Buy minus cumulative Sell up to and including the year minus
\* the vehicles of the year's Use records of the batch is never negative.
C1_NeverBeyondHolding ==
    pc = "done" =>
        \A id \in SubmissionIds(submission_csv.rows) :
            \A i \in 1..Len(years) :
                CumulativeOf(submission_csv.rows, "Buy", id, years[i])
                    - CumulativeOf(submission_csv.rows, "Sell", id, years[i])
                    - VehiclesOf(submission_csv.rows, "Use", years[i], id) >= 0

\* C2: in the plan written by the decoder, for every year and demand cell the
\* distance of the Use records of the cell is within 1 of the demand.
C2_DemandCovered ==
    pc = "done" =>
        \A k \in DOMAIN demand_dict :
            LET covered == covered_demand(submission_csv.rows, k[1], k[2], k[3])
            IN  /\ covered[1] >= (demand_dict[k] - 1) * covered[2]
                /\ covered[1] <= (demand_dict[k] + 1) * covered[2]

\* C3: in the plan written by the decoder, for every year the emissions of
\* the Use records, each with the consumption of its own batch, do not
\* exceed the cap of the year by more than 1.
C3_EmissionsWithinCap ==
    pc = "done" => EmissionsPassed(submission_csv.rows)

\* C4: in the plan written by the decoder, no Use record has a distance per
\* vehicle above the yearly range of its batch plus 0.1.
C4_WithinRange ==
    pc = "done" =>
        \A i \in 1..Len(submission_csv.rows) :
            submission_csv.rows[i].type = "Use" => ~ExceedsRange(submission_csv.rows[i])

\* C5: no fleet or sell variable has an age above 10, no Sell or Use record
\* names a batch 11 or more years after its purchase, and the pool of a year
\* holds no batch bought 11 or more years before it.
C5_NothingPastMaxAge ==
    /\ \A k \in DOMAIN fleet_vars \cup DOMAIN sell_vars : k[4] <= MaxAge
    /\ \A i \in 1..Len(final_submission) :
           final_submission[i].type \in {"Sell", "Use"}
               => final_submission[i].year - final_submission[i].id[3] <= MaxAge
    /\ \A c \in DOMAIN fleet_pool :
           \A i \in 1..Len(fleet_pool[c]) :
               years[year_pos - 1] - fleet_pool[c][i].id[3] <= MaxAge

\* Lines that solve_optimization prints on every run that reaches them.
RoutineLines ==
    {"Loading data...", "Data loaded.", "Creating variables...",
     "Adding constraints...", "Solving...", "Solver Status: True",
     "Solver Status: False", "Optimization failed!",
     "Submission saved to submission.csv"}

\* Something beyond the routine lines was printed, or an exception raised.
Surfaced == error # <<>> \/ \E i \in 1..Len(log) : log[i] \notin RoutineLines

\* C6: whenever a duty ends with remaining_needed > 0 after the whole pool
\* was iterated, the shortfall is surfaced.
C6_ShortfallSurfaced ==
    pc \in {"use", "save", "done"} =>
        ((\E i \in 1..Len(duty_trace) : duty_trace[i].remaining_needed > 0)
            => Surfaced)

\* C8: every Use record of the plan names a fuel for which the consumption
\* index holds an entry of the record's own batch (v, s, purchase year).
C8_FuelCompatibleWithBatch ==
    pc = "done" =>
        \A i \in 1..Len(submission_csv.rows) :
            LET r == submission_csv.rows[i]
            IN  r.type = "Use" =>
                    <<r.id[1], r.id[2], r.id[3], r.fuel>> \in DOMAIN consumption

\* C7: once the solver has returned a failure, solve_optimization has
\* returned after printing the failure, no plan record exists, nothing was
\* written, the solver was called once and no further step is taken.
C7_FailureIsTerminal ==
    "Solver Status: False" \in Range(log) =>
        /\ pc = "returned"
        /\ ~res.success
        /\ log[Len(log)] = "Optimization failed!"
        /\ Len(submission_rows) = 0
        /\ Len(final_submission) = 0
        /\ ~submission_csv.written
        /\ Cardinality({i \in 1..Len(log) : log[i] = "Solving..."}) = 1
        /\ ~ENABLED Next

\* C7 witness: the solver failed on a model with rows and the run returned.
C7_Witness ==
    /\ pc = "returned"
    /\ ~res.success
    /\ model.constraint_count > 0
    /\ "Optimization failed!" \in Range(log)

\* Positions of the Buy rows of (t, v, s) in rows.
BuyPositions(rows, t, v, s) ==
    {i \in 1..Len(rows) :
        rows[i].type = "Buy" /\ rows[i].year = t
        /\ rows[i].id[1] = v /\ rows[i].id[2] = s}

\* Positions of the Sell rows of (t, v, s, age) in rows.
SellPositions(rows, t, v, s, age) ==
    {i \in 1..Len(rows) :
        rows[i].type = "Sell" /\ rows[i].year = t
        /\ rows[i].id = <<v, s, t - age>>}

\* The decoder has extracted the Buy and Sell records.
Extracted == res.success /\ pc \in {"use", "save", "done", "raised"}

\* C9: submission_rows holds exactly one Buy record per (t, v, s) with a
\* positive rounded Buy value and one Sell record per (t, v, s, age) with a
\* positive rounded Sell value, carrying the value and the batch id of year
\* t - age, no record for a value <= 0 and no other record; the Buy and Sell
\* records of the plan are these, with empty fuel and distance fields.
C9_BuySellRecords ==
    Extracted =>
        /\ \A k \in DOMAIN buy_vars :
               LET val == PyRound(get_val(buy_vars[k]))
                   at == BuyPositions(submission_rows, k[1], k[2], k[3])
               IN  IF val > 0
                   THEN /\ Cardinality(at) = 1
                        /\ \A i \in at :
                               /\ submission_rows[i].num_vehicles = val
                               /\ submission_rows[i].id = <<k[2], k[3], k[1]>>
                   ELSE at = {}
        /\ \A k \in DOMAIN sell_vars :
               LET val == PyRound(get_val(sell_vars[k]))
                   at == SellPositions(submission_rows, k[1], k[2], k[3], k[4])
               IN  IF val > 0
                   THEN /\ Cardinality(at) = 1
                        /\ \A i \in at : submission_rows[i].num_vehicles = val
                   ELSE at = {}
        /\ Len(submission_rows) =
               Cardinality({k \in DOMAIN buy_vars :
                               PyRound(get_val(buy_vars[k])) > 0})
               + Cardinality({k \in DOMAIN sell_vars :
                               PyRound(get_val(sell_vars[k])) > 0})
        /\ \A i \in 1..Len(submission_rows) :
               submission_rows[i].type \in {"Buy", "Sell"}
        /\ RowsOfType(final_submission, "Buy") \o RowsOfType(final_submission, "Sell")
               = RowsOfType(submission_rows, "Buy") \o RowsOfType(submission_rows, "Sell")
        /\ \A i \in 1..Len(final_submission) :
               final_submission[i].type \in {"Buy", "Sell"} =>
                   /\ final_submission[i].fuel = ""
                   /\ final_submission[i].distance_bucket = ""
                   /\ final_submission[i].distance_per_vehicle = ""

\* C9 witness: a Buy record and a Sell record were emitted while the Buy
\* variable of another year rounded to 0 and got no record.
C9_Witness ==
    /\ Extracted
    /\ \E i \in 1..Len(submission_rows) : submission_rows[i].type = "Buy"
    /\ \E i \in 1..Len(submission_rows) : submission_rows[i].type = "Sell"
    /\ \E k \in DOMAIN buy_vars : PyRound(get_val(buy_vars[k])) = 0

\* The cells of years x sizes x distances in loop order.
DemandLoop ==
    Concat([i \in 1..Len(years) |->
        Concat([j \in 1..Len(sizes) |->
            [k \in 1..Len(distances) |->
                <<years[i], sizes[j], distances[k]>>]])])

\* Positions in DemandLoop of the cells without an entry in the demand table.
MissingCells == {i \in 1..Len(DemandLoop) : DemandLoop[i] \notin DOMAIN demand_dict}

\* Number of rows generated before the demand row of the cell at position n.
RowsBeforeCell(n) ==
    Len(Concat([i \in 1..Len(YearClassLoop) |->
            FleetDynamicsRows(YearClassLoop[i][1], YearClassLoop[i][2],
                              YearClassLoop[i][3])]))
    + Len(Concat([i \in 1..(n - 1) |->
            DemandRows(DemandLoop[i][1], DemandLoop[i][2], DemandLoop[i][3])]))

\* C10: if a cell of years x sizes x distances has no demand entry, then once
\* constraint generation has run, it has raised KeyError with the key of the
\* first such cell, after adding exactly the rows generated before that
\* cell's demand row; the solver was never called and no plan exists.
C10_MissingDemandRaises ==
    (MissingCells # {} /\ pc \notin {"variables", "constraints"}) =>
        LET first == CHOOSE i \in MissingCells : \A j \in MissingCells : i <= j
        IN  /\ pc = "raised"
            /\ error = <<"KeyError", DemandLoop[first]>>
            /\ model.constraint_count = RowsBeforeCell(first)
            /\ "Solving..." \notin Range(log)
            /\ ~res.success
            /\ Len(final_submission) = 0
            /\ ~submission_csv.written

\* C10 witness: constraint generation raised on a missing cell that is not
\* the first of the loop.
C10_Witness ==
    /\ pc = "raised"
    /\ MissingCells # {}
    /\ 1 \notin MissingCells
    /\ error[1] = "KeyError"

\* ------------------------------------------------------------ determinism
\* A second run of the variable generation over the inputs of the state.
RerunVariables ==
    AddVariables(EmptyModel, AllVariableCalls, 1, Len(AllVariableCalls))

\* A second run of the constraint generation after RerunVariables.
RerunConstraints ==
    AddConstraintsFrom(RerunVariables, ConstraintRequests, 1,
                       Len(ConstraintRequests))

\* A second run of the extraction of the Buy and Sell records from res.x.
RerunExtract ==
    Concat([i \in 1..Len(YearClassLoop) |->
        LET c == YearClassLoop[i]
        IN  BuyRows(c[1], c[2], c[3]) \o SellRows(c[1], c[2], c[3])])

\* A second run of the decoder over the first n years.
RerunDecoder(n) ==
    RerunExtract
    \o Concat([i \in 1..n |->
           AssignTasks(years[i], 1, BuildFleetPool(years[i]),
                       [rows |-> <<>>, trace |-> <<>>]).rows])

TermLookups ==
    UNION {{<<r.terms[i][2], r.terms[i][3]>> : i \in 1..Len(r.terms)} :
              r \in Range(ConstraintRequests)}

\* C12: for every horizon of contiguous ascending years, once the variables
\* exist every term of every generated constraint looks up a key that is in
\* its registry (so no lookup raises, Fleet[t-1, age-1] of the aging rows
\* included), and every Use and Km variable belongs to a
\* (vehicle type, size, year, fuel) of the consumption index.
C12_TermsReferToCreated ==
    pc # "variables" =>
        /\ \A q \in TermLookups : q[2] \in DOMAIN RegistryOf(q[1])
        /\ \A k \in DOMAIN use_vars \cup DOMAIN km_vars :
               <<k[2], k[3], k[1], k[5]>> \in DOMAIN consumption

\* ----------------------------------------------------------- fleet dynamics
\* The explored assignments that satisfy every generated row and bound.
FeasibleAssignments ==
    {y \in ExploredSolutions(model) : Feasible(model, y)}

\* The (t, v, s, age) of the aging relation: ages 1..MaxAge of every class
\* and year whose purchase year is not before the first year of the horizon.
AgingKeys ==
    {k \in {<<c[1], c[2], c[3], age>> :
                c \in Range(YearClassLoop), age \in 1..MaxAge} :
        k[1] - k[4] >= years[1]}

\* C13: no Fleet or Sell variable of the first year of the horizon has an
\* age above 0, and every assignment that satisfies the generated rows has
\* Fleet[t, 0] = Buy[t] for every class and year, and for every age 1..10
\* whose purchase year t - age is not before the first year of the horizon
\* Fleet[t, age] = Fleet[t-1, age-1] - Sell[t, age] and
\* Sell[t, age] <= Fleet[t-1, age-1].
C13_FleetDynamics ==
    /\ (pc # "variables" /\ Len(years) > 0) =>
           /\ \A k \in DOMAIN fleet_vars \cup DOMAIN sell_vars :
                  k[1] = years[1] => k[4] = 0
           /\ \A k \in AgingKeys :
                  /\ k \in DOMAIN fleet_vars
                  /\ k \in DOMAIN sell_vars
                  /\ <<k[1] - 1, k[2], k[3], k[4] - 1>> \in DOMAIN fleet_vars
    /\ pc = "solve" =>
           \A x \in FeasibleAssignments :
               /\ \A c \in Range(YearClassLoop) :
                      x[fleet_vars[<<c[1], c[2], c[3], 0>>] + 1]
                          = x[buy_vars[c] + 1]
               /\ \A k \in AgingKeys :
                      LET prev == x[fleet_vars[<<k[1] - 1, k[2], k[3],
                                                 k[4] - 1>>] + 1]
                      IN  /\ x[fleet_vars[k] + 1] = prev - x[sell_vars[k] + 1]
                          /\ x[sell_vars[k] + 1] <= prev

\* -------------------------------------------------------------- demand rows
\* The generation of the constraints ran to its end.
Generated == pc \notin {"variables", "constraints", "raised"}

\* The Km variables of a demand cell, over all vehicle types and fuels.
KmOfCell(t, s, d) ==
    {k \in DOMAIN km_vars : k[1] = t /\ k[3] = s /\ k[4] = d}

\* The rows with equal lower and upper bound all of whose terms are on Km
\* variables.
KmEqualityRows ==
    {r \in 0..(model.constraint_count - 1) :
        /\ model.constraints_lbs[r + 1] = model.constraints_ubs[r + 1]
        /\ \A p \in RowPositions(model)[r] :
               model.constraints_cols[p] \in Range(km_vars)}

\* C14: when the generation has run to its end, every cell of the demand
\* loop has its own row, at the position of the cell in the order of
\* generation, with lower and upper bound equal to the demand of the cell
\* and one term of coefficient 1 for each Km variable of the cell's year,
\* size and bucket and no other term; there is no further equality row on Km
\* variables; and a cell with positive demand and no Km variable (a row
\* without terms) leaves the solver without a solution.
C14_DemandRows ==
    Generated =>
        /\ Cardinality(KmEqualityRows) = Len(DemandLoop)
        /\ \A i \in 1..Len(DemandLoop) :
               LET cell == DemandLoop[i]
                   r == RowsBeforeCell(i)
                   at == RowPositions(model)[r]
                   kms == KmOfCell(cell[1], cell[2], cell[3])
               IN  /\ r \in KmEqualityRows
                   /\ model.constraints_lbs[r + 1] = demand_dict[cell]
                   /\ model.constraints_ubs[r + 1] = demand_dict[cell]
                   /\ Cardinality(at) = Cardinality(kms)
                   /\ {model.constraints_cols[p] : p \in at}
                          = {km_vars[k] : k \in kms}
                   /\ \A p \in at : model.constraints_vals[p] = 1
                   /\ (kms = {} /\ demand_dict[cell] > 0 /\ pc # "solve")
                          => ~res.success

\* C14 witness: the solver was called on a model with a cell of positive
\* demand that has no Km variable, a cell of another bucket in the same year
\* and a cell that has a Km variable.
C14_Witness ==
    /\ Generated
    /\ pc # "solve"
    /\ \E i, j \in 1..Len(DemandLoop) :
           /\ DemandLoop[i][1] = DemandLoop[j][1]
           /\ DemandLoop[i][3] # DemandLoop[j][3]
           /\ KmOfCell(DemandLoop[i][1], DemandLoop[i][2], DemandLoop[i][3]) = {}
           /\ demand_dict[DemandLoop[i]] > 0
    /\ \E i \in 1..Len(DemandLoop) :
           KmOfCell(DemandLoop[i][1], DemandLoop[i][2], DemandLoop[i][3]) # {}

\* ----------------------------------------------------------------- capacity
\* Sum over the keys of one (t, v, s) in a registry of their values in x.
TotalOfClass(x, registry, t, v, s) ==
    LET keys == {k \in DOMAIN registry : k[1] = t /\ k[2] = v /\ k[3] = s}
    IN  SumOver([k \in keys |-> x[registry[k] + 1]], keys)

\* x keeps every duty within the range of its vehicles and every class
\* within its fleet.
WithinCapacity(x) ==
    /\ \A k \in DOMAIN use_vars :
           x[km_vars[k] + 1]
               <= x[use_vars[k] + 1] * Get(vehicle_range, <<k[2], k[3], k[1]>>, 0)
    /\ \A c \in Range(YearClassLoop) :
           TotalOfClass(x, use_vars, c[1], c[2], c[3])
               <= TotalOfClass(x, fleet_vars, c[1], c[2], c[3])

\* C15: every assignment that satisfies the generated rows, the one the
\* solver returns included, has Km <= Use * yearly range of the vehicle
\* class in that year for each (year, class, bucket, fuel) with a Use
\* variable, and for each (year, class) the sum of the Use variables over
\* buckets and fuels <= the sum of the Fleet variables over the ages 0..10.
C15_WithinCapacity ==
    /\ pc = "solve" => \A x \in FeasibleAssignments : WithinCapacity(x)
    /\ res.success => WithinCapacity(res.x)

\* C15 witness: the generated rows admit an assignment that uses vehicles in
\* two buckets of one year while a part of the fleet of that year and class
\* is idle.
C15_Witness ==
    /\ pc = "solve"
    /\ \E x \in FeasibleAssignments :
       \E j, k \in DOMAIN use_vars :
           /\ j # k
           /\ j[1] = k[1]
           /\ x[use_vars[j] + 1] > 0
           /\ x[use_vars[k] + 1] > 0
           /\ TotalOfClass(x, use_vars, k[1], k[2], k[3])
                  < TotalOfClass(x, fleet_vars, k[1], k[2], k[3])

\* ---------------------------------------------------------- duty allocation
\* Position in a pool of the batch with the given id.
PoolPosition(pool, id) == CHOOSE i \in 1..Len(pool) : pool[i].id = id

\* The count of item j of the pool of a duty at the moment the duty reaches
\* item i: the items before i have been gone through, the others not yet.
CountWhenAt(e, i, j) ==
    IF j < i THEN e.pool_after[j].count ELSE e.pool_before[j].count

\* C16: within a year and a vehicle class a Use record goes to a batch only
\* when every batch of the pool with an earlier purchase year has a
\* remaining count of 0 at that moment (oldest vintage first).
C16_OldestFirst ==
    \A n \in 1..Len(duty_trace) :
        LET e == duty_trace[n]
        IN  \A r \in 1..Len(e.rows) :
                LET i == PoolPosition(e.pool_before, e.rows[r].id)
                IN  \A j \in 1..Len(e.pool_before) :
                        e.pool_before[j].id[3] < e.rows[r].id[3]
                            => CountWhenAt(e, i, j) = 0

\* --------------------------------------------------------- pool accounting
\* Sum of the counts of the items of a pool.
PoolTotal(pool) ==
    SumOver([j \in DOMAIN pool |-> pool[j].count], DOMAIN pool)

\* The count with which a batch enters the pool of year t: the rounded Buy
\* value for the batch bought in t, the rounded Fleet value of t - 1 at the
\* batch's age for a batch carried over.
InitialCount(t, id) ==
    IF id[3] = t
    THEN PyRound(get_val(buy_vars[<<t, id[1], id[2]>>]))
    ELSE PyRound(get_val(fleet_vars[<<t - 1, id[1], id[2], (t - 1) - id[3]>>]))

\* The duties of the trace before position n with the year and the class of
\* the duty at position n.
EarlierDuties(n) ==
    {m \in 1..(n - 1) :
        /\ duty_trace[m].key[1] = duty_trace[n].key[1]
        /\ duty_trace[m].key[2] = duty_trace[n].key[2]
        /\ duty_trace[m].key[3] = duty_trace[n].key[3]}

\* Vehicles of a batch allocated by the duties of EarlierDuties(n) and by
\* the duty at position n.
AllocatedUpTo(n, id) ==
    LET duties == EarlierDuties(n) \cup {n}
    IN  SumOver([m \in duties |->
                    SumVehicles(SelectSeq(duty_trace[m].rows,
                                          LAMBDA r : r.id = id))], duties)

\* C17: after every duty of every year and class, every counter of the pool
\* is >= 0; the vehicles of the Use records allocated so far in the year to
\* a batch are <= the count with which the batch entered the pool; every Use
\* record has num_vehicles >= 1; the counts allocated for the duty sum to
\* the lesser of its rounded Use value and the total of the pool when the
\* duty started; and the pool a duty starts from is the pool as built for
\* the year for the first duty of the class and the pool left by the
\* previous duty of the class in the year for every other.
C17_PoolAccounting ==
    /\ \A n \in 1..Len(duty_trace) :
           LET e == duty_trace[n]
               earlier == EarlierDuties(n)
           IN  /\ \A j \in 1..Len(e.pool_after) : e.pool_after[j].count >= 0
               /\ \A j \in 1..Len(e.pool_before) :
                      AllocatedUpTo(n, e.pool_before[j].id)
                          <= InitialCount(e.key[1], e.pool_before[j].id)
               /\ \A r \in 1..Len(e.rows) :
                      /\ e.rows[r].num_vehicles >= 1
                      /\ \E j \in 1..Len(e.pool_before) :
                             e.pool_before[j].id = e.rows[r].id
               /\ SumVehicles(e.rows) = Min(e.needed, PoolTotal(e.pool_before))
               /\ e.pool_before =
                      IF earlier = {}
                      THEN BuildPool(e.key[1], e.key[2], e.key[3])
                      ELSE duty_trace[CHOOSE m \in earlier :
                                         \A k \in earlier : k <= m].pool_after
    /\ \A i \in 1..Len(final_submission) :
           final_submission[i].type = "Use"
               => final_submission[i].num_vehicles >= 1
    /\ RowsOfType(final_submission, "Use")
           = Concat([n \in 1..Len(duty_trace) |-> duty_trace[n].rows])

\* C17 witness: a duty that is not the first of its class in the year took
\* what an earlier duty had left in the pool, which was less than it needed.
C17_Witness ==
    \E n \in 1..Len(duty_trace) :
        /\ duty_trace[n].remaining_needed > 0
        /\ duty_trace[n].rows # <<>>
        /\ \E m \in EarlierDuties(n) : duty_trace[m].rows # <<>>

\* ------------------------------------------------ OptimizationModel arrays
\* The variable state and the constraint state of a model.
VariableState(m) ==
    <<m.var_names, m.var_types, m.lbs, m.ubs, m.obj_coeffs, m.var_map>>

ConstraintState(m) ==
    <<m.constraints_rows, m.constraints_cols, m.constraints_vals,
      m.constraints_lbs, m.constraints_ubs, m.constraint_count>>

\* The model after the n-th call of the client.
ModelAfter(n) ==
    IF n = Len(api_calls) THEN model ELSE api_calls[n + 1].before

\* C18: after any sequence of add_variable and add_constraint calls with
\* sense '==', '<=' or '>=': the k-th add_variable call returned k - 1;
\* var_names, var_types, lbs, ubs and obj_coeffs have the length of the
\* number of add_variable calls; constraints_lbs and constraints_ubs have
\* length constraint_count; constraints_rows, constraints_cols and
\* constraints_vals have equal length; every stored row index is below
\* constraint_count; the row of the k-th add_constraint call has
\* lower = upper = rhs for '==', lower = -inf and upper = rhs for '<=',
\* lower = rhs and upper = +inf for '>='; add_variable left the constraint
\* state as it was and add_constraint left the variable state as it was.
C18_ModelArrays ==
    pc = "api" =>
        LET added == SelectSeq(api_calls, LAMBDA e : e.op = "add_variable")
            rows == SelectSeq(api_calls, LAMBDA e : e.op = "add_constraint")
        IN  /\ \A k \in 1..Len(added) : added[k].ret = k - 1
            /\ Len(model.var_names) = Len(added)
            /\ Len(model.var_types) = Len(added)
            /\ Len(model.lbs) = Len(added)
            /\ Len(model.ubs) = Len(added)
            /\ Len(model.obj_coeffs) = Len(added)
            /\ Len(model.constraints_lbs) = model.constraint_count
            /\ Len(model.constraints_ubs) = model.constraint_count
            /\ model.constraint_count = Len(rows)
            /\ Len(model.constraints_rows) = Len(model.constraints_cols)
            /\ Len(model.constraints_rows) = Len(model.constraints_vals)
            /\ \A p \in 1..Len(model.constraints_rows) :
                   /\ model.constraints_rows[p] >= 0
                   /\ model.constraints_rows[p] < model.constraint_count
            /\ \A k \in 1..Len(rows) :
                   LET sense == rows[k].args[2]
                       rhs == rows[k].args[3]
                   IN  /\ model.constraints_lbs[k] =
                              (IF sense = "<=" THEN -Inf ELSE rhs)
                       /\ model.constraints_ubs[k] =
                              (IF sense = ">=" THEN Inf ELSE rhs)
            /\ \A n \in 1..Len(api_calls) :
                   IF api_calls[n].op = "add_variable"
                   THEN ConstraintState(ModelAfter(n))
                            = ConstraintState(api_calls[n].before)
                   ELSE VariableState(ModelAfter(n))
                            = VariableState(api_calls[n].before)

\* C18 witness: a '>=' row of two terms was added between two add_variable
\* calls, the second of which returned 1.
C18_Witness ==
    /\ pc = "api"
    /\ Len(api_calls) = 3
    /\ api_calls[1].op = "add_variable"
    /\ api_calls[2].op = "add_constraint"
    /\ api_calls[2].args[2] = ">="
    /\ Len(api_calls[2].args[1]) = 2
    /\ api_calls[3].op = "add_variable"
    /\ api_calls[3].ret = 1
    /\ model.constraint_count = 1

====
